---- MODULE Spec2Model ----
(***************************************************************************)
(* Model of the NEAR event/vote registry contract (src/src/lib.rs).        *)
(* The contract state is `owner` and `events`; every public method is one  *)
(* host invocation that runs to completion.  The host supplies the block   *)
(* timestamp (`block_timestamp`) and, per invocation, the signer and the   *)
(* predecessor account.  `call` records the last invocation: the method,   *)
(* its arguments, the accounts the host supplied to a mutating method,     *)
(* and what the caller got back (a value or a panic).                      *)
(* `created` and `cast` are history variables: the events as they were     *)
(* constructed, and per event and account the number of add_vote calls     *)
(* that returned normally.                                                 *)
(* `events` is the part of the Vec the model holds element by element:     *)
(* `base` counts the events stored ahead of it, so the Vec's length is     *)
(* base + Len(events).  A registry built from Contract::new has base 0;    *)
(* a long-lived one is entered with a base near the limits of the id.      *)
(* `running` is the invocation of add_vote the host is executing step by   *)
(* step on its working copy of the contract, when the steps are told       *)
(* apart; where a method is one step it stays idle.                        *)
(***************************************************************************)
EXTENDS Integers, Sequences, FiniteSets, TLC

VARIABLES owner, events, block_timestamp, call, created, cast, base, running

vars == <<owner, events, block_timestamp, call, created, cast, base, running>>

---------------------------------------------------------------------------
(* Bounds of the model *)

\* Events the registry may hold, and votes cast over all events.
MaxEvents == 2
MaxVotes == 2

(* Input domains *)

AccountNames == {"alice.testnet", "bob.near"}
Titles == {"Art Show", "Book Fair"}
Budgets == {200}
Timestamps == {0, 1}
Descriptions == {"desc"}

\* AccountId is a newtype around the validated account string.
AccountId(s) == [account |-> s]

Accounts == {AccountId(s) : s \in AccountNames}

\* AccountId::to_string (Display): the inner string, unwrapped.
to_string(a) == a.account

\* Ids a caller may pass: every valid index and, whatever the registry
\* holds, at least one past the end.
IdArgs == 0 .. MaxEvents

---------------------------------------------------------------------------
(* Integer conversions *)

\* A usize is held as two parts, hi * 2^16 + lo with lo below 2^16, so
\* that lengths beyond i32::MAX can be written down.
HalfWord == 65536

Wide(n) == [hi |-> n \div HalfWord, lo |-> n % HalfWord]

\* w + k for a small k >= 0
WideAdd(w, k) ==
    LET s == w.lo + k
    IN [hi |-> w.hi + (s \div HalfWord), lo |-> s % HalfWord]

\* w <= i32::MAX
FitsI32(w) == w.hi < HalfWord \div 2

\* `n as i32` for a usize n: the low 32 bits, read as two's complement.
\* Values up to i32::MAX are kept, larger ones wrap around modulo 2^32.
as_i32(w) ==
    LET h == w.hi % HalfWord
    IN (IF h >= HalfWord \div 2 THEN h - HalfWord ELSE h) * HalfWord + w.lo

\* Mutant: zero is rejected along with the negative values.
try_into_u64_positive(v) == IF v > 0 THEN [ok |-> TRUE, value |-> v]
                                     ELSE [ok |-> FALSE, value |-> 0]

\* i64 -> u64 `try_into()`: Ok for non-negative values, Err otherwise.
try_into_u64(v) == IF v >= 0 THEN [ok |-> TRUE, value |-> v]
                             ELSE [ok |-> FALSE, value |-> 0]

---------------------------------------------------------------------------
(* Event record *)

\* Mutant: the creator is the immediate caller.
creator_predecessor(signer, predecessor) == predecessor

\* The account Event::new records as creator: env::signer_account_id().
creator_account(signer, predecessor) == signer

\* Mutant: the voter is the signer of the transaction.
voter_signer(signer, predecessor) == signer

\* The account add_vote records as voter: env::predecessor_account_id().
voter_account(signer, predecessor) == predecessor

\* Event::new: creator is the signer of the transaction, created_at the
\* block timestamp, the tally starts at zero with no votes.
EventNew(id, title, estimated_budget, description, signer, predecessor) ==
    [ id               |-> id,
      creator          |-> creator_account(signer, predecessor),
      created_at       |-> block_timestamp,
      title            |-> title,
      estimated_budget |-> estimated_budget,
      total_votes      |-> 0,
      description      |-> description,
      votes            |-> << >> ]

---------------------------------------------------------------------------
(* Host *)

NoAccount == AccountId("")

\* The record of one invocation: the method, its arguments, the signer and
\* predecessor the host supplied (NoAccount for the methods that never ask
\* for them) and the outcome.
Returned(op, args, signer, predecessor, v) ==
    [ op |-> op, args |-> args, signer |-> signer, predecessor |-> predecessor,
      status |-> "ok", value |-> v ]

\* A panic aborts the invocation: nothing is returned.
Panicked(op, args, signer, predecessor) ==
    [ op |-> op, args |-> args, signer |-> signer, predecessor |-> predecessor,
      status |-> "panic", value |-> 0 ]

\* A new block: the block timestamp moves forward.
Tick ==
    /\ \E t \in Timestamps : t > block_timestamp /\ block_timestamp' = t
    /\ UNCHANGED <<owner, base, running, events, call, created, cast>>

---------------------------------------------------------------------------
(* Contract *)

NoVotes == [a \in Accounts |-> 0]

\* No invocation is being executed.
Idle ==
    [ pc |-> "idle", id |-> 0, signer |-> NoAccount, predecessor |-> NoAccount,
      events |-> << >> ]

\* Contract::new(owner)
Init ==
    /\ owner \in Accounts
    /\ events = << >>
    /\ block_timestamp = 0
    /\ call = Returned("new", <<owner>>, NoAccount, NoAccount, 0)
    /\ created = << >>
    /\ cast = << >>
    /\ base = Wide(0)
    /\ running = Idle

\* Mutant: the new element goes to the front.
push_front(v, x) == <<x>> \o v

\* Vec::push
push(v, x) == Append(v, x)

\* `self.events.len()`: the events ahead of evs and those of evs.
len(evs) == WideAdd(base, Len(evs))

\* The id add_event assigns: `self.events.len() as i32`.
next_id(evs) == as_i32(len(evs))

\* Contract::add_event
add_event(title, estimated_budget, description, signer, predecessor) ==
    /\ Len(events) < MaxEvents
    /\ LET id == next_id(events)
           event == EventNew(id, title, estimated_budget, description, signer, predecessor)
       IN /\ events' = push(events, event)
          /\ created' = Append(created, event)
    /\ cast' = Append(cast, NoVotes)
    /\ call' = Returned("add_event", <<title, estimated_budget, description>>,
                        signer, predecessor, 0)
    /\ UNCHANGED <<owner, base, running, block_timestamp>>

\* Contract::list_events
list_events ==
    /\ call' = Returned("list_events", << >>, NoAccount, NoAccount, events)
    /\ UNCHANGED <<owner, base, running, events, block_timestamp, created, cast>>

\* Contract::event_count
event_count ==
    /\ call' = Returned("event_count", << >>, NoAccount, NoAccount, Len(events))
    /\ UNCHANGED <<owner, base, running, events, block_timestamp, created, cast>>

\* Mutant: an out-of-range id is clamped to the last event.
get_mut_clamped(evs, id) ==
    IF id < Len(evs) THEN [some |-> TRUE, index |-> id + 1]
    ELSE IF Len(evs) > 0 THEN [some |-> TRUE, index |-> Len(evs)]
    ELSE [some |-> FALSE, index |-> 0]

\* `self.events.get_mut(id)`: Some(the event at zero-based index id) when
\* id is below the length, None otherwise.  `index` is the position in the
\* one-based sequence.
get_mut(evs, id) ==
    IF id < Len(evs) THEN [some |-> TRUE, index |-> id + 1]
                     ELSE [some |-> FALSE, index |-> 0]

\* Mutant: the counter is incremented and the voter is never pushed.
record_vote_no_push(event, voter) == [event EXCEPT !.total_votes = @ + 1]

\* Mutant: a vote also stamps the event with the current block time.
record_vote_restamps(event, voter) ==
    [event EXCEPT !.total_votes = @ + 1,
                  !.votes = push(@, to_string(voter)),
                  !.created_at = block_timestamp]

\* Mutant: the counter goes down.
count_vote_decrements(event) == [event EXCEPT !.total_votes = @ - 1]

\* `event.total_votes += 1`
count_vote(event) == [event EXCEPT !.total_votes = @ + 1]

\* `event.votes.push(voter.to_string())`
push_vote(event, voter) == [event EXCEPT !.votes = push(@, to_string(voter))]

\* Mutant: the voter replaces the list of votes.
record_vote_replaces(event, voter) ==
    [event EXCEPT !.total_votes = @ + 1, !.votes = <<to_string(voter)>>]

\* The event after the two writes of add_vote: the counter first, the
\* voter's string last.
record_vote(event, voter) ==
    LET counted == count_vote(event)
    IN push_vote(counted, voter)

\* Votes cast so far over all events (bounds the model only).
RECURSIVE VotesCast(_)
VotesCast(evs) ==
    IF evs = << >> THEN 0 ELSE Len(Head(evs).votes) + VotesCast(Tail(evs))

\* Mutant: an account that already voted for the event is turned away.
add_vote_once(id, signer, predecessor) ==
    /\ LET event == get_mut(events, id)
           voter == voter_account(signer, predecessor)
       IN IF event.some
             /\ \A k \in 1 .. Len(events[event.index].votes) :
                    events[event.index].votes[k] # to_string(voter)
          THEN /\ VotesCast(events) < MaxVotes
               /\ events' = [events EXCEPT ![event.index] = record_vote(@, voter)]
               /\ cast' = [cast EXCEPT ![event.index][predecessor] = @ + 1]
               /\ call' = Returned("add_vote", <<id>>, signer, predecessor, 0)
          ELSE /\ events' = events
               /\ cast' = cast
               /\ call' = Panicked("add_vote", <<id>>, signer, predecessor)
    /\ UNCHANGED <<owner, base, running, block_timestamp, created>>

\* Mutant: only the owner may vote.
add_vote_owner_only(id, signer, predecessor) ==
    /\ LET event == get_mut(events, id)
           voter == voter_account(signer, predecessor)
       IN IF event.some /\ voter = owner
          THEN /\ VotesCast(events) < MaxVotes
               /\ events' = [events EXCEPT ![event.index] = record_vote(@, voter)]
               /\ cast' = [cast EXCEPT ![event.index][predecessor] = @ + 1]
               /\ call' = Returned("add_vote", <<id>>, signer, predecessor, 0)
          ELSE /\ events' = events
               /\ cast' = cast
               /\ call' = Panicked("add_vote", <<id>>, signer, predecessor)
    /\ UNCHANGED <<owner, base, running, block_timestamp, created>>

\* Contract::add_vote
add_vote(id, signer, predecessor) ==
    /\ LET event == get_mut(events, id)
           voter == voter_account(signer, predecessor)
       IN IF event.some
          THEN /\ VotesCast(events) < MaxVotes
               /\ events' = [events EXCEPT ![event.index] = record_vote(@, voter)]
               /\ cast' = [cast EXCEPT ![event.index][predecessor] = @ + 1]
               /\ call' = Returned("add_vote", <<id>>, signer, predecessor, 0)
          ELSE \* unwrap of None panics before any write
               /\ events' = events
               /\ cast' = cast
               /\ call' = Panicked("add_vote", <<id>>, signer, predecessor)
    /\ UNCHANGED <<owner, base, running, block_timestamp, created>>

\* Mutant: the lookup is followed by add_vote's increment.
get_total_votes_counts(id) ==
    /\ LET event == get_mut(events, id)
       IN IF event.some
          THEN /\ events' = [events EXCEPT ![event.index].total_votes = @ + 1]
               /\ call' = Returned("get_total_votes", <<id>>, NoAccount, NoAccount,
                                   events'[event.index].total_votes)
          ELSE /\ events' = events
               /\ call' = Panicked("get_total_votes", <<id>>, NoAccount, NoAccount)
    /\ UNCHANGED <<owner, base, running, block_timestamp, created, cast>>

\* Contract::get_total_votes
get_total_votes(id) ==
    /\ LET event == get_mut(events, id)
       IN IF event.some
          THEN LET r == try_into_u64(events[event.index].total_votes)
               IN call' = IF r.ok
                          THEN Returned("get_total_votes", <<id>>, NoAccount, NoAccount, r.value)
                          ELSE Panicked("get_total_votes", <<id>>, NoAccount, NoAccount)
          ELSE call' = Panicked("get_total_votes", <<id>>, NoAccount, NoAccount)
    /\ UNCHANGED <<owner, base, running, events, block_timestamp, created, cast>>

---------------------------------------------------------------------------

AddEvent ==
    \E s \in Accounts, p \in Accounts, t \in Titles, b \in Budgets, d \in Descriptions :
        add_event(t, b, d, s, p)

ListEvents == list_events

EventCount == event_count

AddVote == \E s \in Accounts, p \in Accounts, id \in IdArgs : add_vote(id, s, p)

GetTotalVotes == \E id \in IdArgs : get_total_votes(id)

Next ==
    \/ AddEvent
    \/ ListEvents
    \/ EventCount
    \/ AddVote
    \/ GetTotalVotes
    \/ Tick

Spec == Init /\ [][Next]_vars

---------------------------------------------------------------------------
(* add_vote step by step *)

\* The host starts add_vote(id): the contract is read from storage into
\* the working copy.
vote_begin(id, signer, predecessor) ==
    /\ running.pc = "idle"
    /\ VotesCast(events) < MaxVotes
    /\ running' = [ pc |-> "get_mut", id |-> id, signer |-> signer,
                    predecessor |-> predecessor, events |-> events ]
    /\ UNCHANGED <<owner, base, events, block_timestamp, call, created, cast>>

\* The invocation ends without a write to storage.
Aborted ==
    /\ running' = Idle
    /\ call' = Panicked("add_vote", <<running.id>>, running.signer, running.predecessor)
    /\ UNCHANGED <<owner, base, events, block_timestamp, created, cast>>

\* `self.events.get_mut(id).unwrap()`
vote_get_mut ==
    /\ running.pc = "get_mut"
    /\ IF get_mut(running.events, running.id).some
       THEN /\ running' = [running EXCEPT !.pc = "increment"]
            /\ UNCHANGED <<owner, base, events, block_timestamp, call, created, cast>>
       ELSE Aborted

\* Mutant: the increment is written straight to storage.
vote_increment_in_storage ==
    /\ running.pc = "increment"
    /\ LET index == get_mut(running.events, running.id).index
       IN /\ running' = [running EXCEPT !.pc = "log",
                                        !.events[index] = count_vote(@)]
          /\ events' = [events EXCEPT ![index] = count_vote(@)]
    /\ UNCHANGED <<owner, base, block_timestamp, call, created, cast>>

\* `event.total_votes += 1`, on the working copy
vote_increment ==
    /\ running.pc = "increment"
    /\ LET index == get_mut(running.events, running.id).index
       IN running' = [running EXCEPT !.pc = "log",
                                     !.events[index] = count_vote(@)]
    /\ UNCHANGED <<owner, base, events, block_timestamp, call, created, cast>>

\* `env::log_str(..)`
vote_log ==
    /\ running.pc = "log"
    /\ running' = [running EXCEPT !.pc = "push"]
    /\ UNCHANGED <<owner, base, events, block_timestamp, call, created, cast>>

\* `event.votes.push(voter.to_string())`, on the working copy
vote_push ==
    /\ running.pc = "push"
    /\ LET index == get_mut(running.events, running.id).index
           voter == voter_account(running.signer, running.predecessor)
       IN running' = [running EXCEPT !.pc = "write",
                                     !.events[index] = push_vote(@, voter)]
    /\ UNCHANGED <<owner, base, events, block_timestamp, call, created, cast>>

\* The method has returned: the working copy is written to storage.
vote_write ==
    /\ running.pc = "write"
    /\ events' = running.events
    /\ cast' = [cast EXCEPT ![running.id + 1][running.predecessor] = @ + 1]
    /\ call' = Returned("add_vote", <<running.id>>, running.signer,
                        running.predecessor, 0)
    /\ running' = Idle
    /\ UNCHANGED <<owner, base, block_timestamp, created>>

\* The host stops the invocation after the lookup (a failed host call, no
\* gas left): nothing of it is written.
vote_abort ==
    /\ running.pc \in {"increment", "log", "push", "write"}
    /\ Aborted

VoteBegin == \E s \in Accounts, p \in Accounts, id \in IdArgs : vote_begin(id, s, p)

\* add_event, as one step, once no invocation is being executed; the
\* events differ in their creator, who calls directly.
AddEventWhenIdle ==
    /\ running.pc = "idle"
    /\ \E a \in Accounts, b \in Budgets, d \in Descriptions :
          add_event("Art Show", b, d, a, a)

NextSteps ==
    \/ AddEventWhenIdle
    \/ VoteBegin
    \/ vote_get_mut
    \/ vote_increment
    \/ vote_log
    \/ vote_push
    \/ vote_write
    \/ vote_abort
    \/ ListEvents
    \/ EventCount
    \/ GetTotalVotes

SpecSteps == Init /\ [][NextSteps]_vars

---------------------------------------------------------------------------
(* The long-lived registry *)

\* Lengths a registry reaches by add_event alone: none, and the last
\* lengths before the i32 and the 32-bit limits.
LongLivedBases ==
    { Wide(0),
      [hi |-> (HalfWord \div 2) - 1, lo |-> HalfWord - 2],
      [hi |-> (HalfWord \div 2) - 1, lo |-> HalfWord - 1],
      [hi |-> HalfWord - 1, lo |-> HalfWord - 2],
      [hi |-> HalfWord - 1, lo |-> HalfWord - 1] }

\* The registry after `base` calls of add_event, the events it then holds
\* left out of `events`.
InitLongLived ==
    /\ owner \in Accounts
    /\ events = << >>
    /\ block_timestamp = 0
    /\ call = Returned("new", <<owner>>, NoAccount, NoAccount, 0)
    /\ created = << >>
    /\ cast = << >>
    /\ base \in LongLivedBases
    /\ running = Idle

NextLongLived ==
    \/ AddEvent
    \/ Tick

SpecLongLived == InitLongLived /\ [][NextLongLived]_vars

---------------------------------------------------------------------------
(* Vocabulary of the properties *)

\* The step is an invocation of method op (a Tick changes the timestamp and
\* leaves `call` alone).
Invoked(op) == call'.op = op /\ block_timestamp' = block_timestamp

\* The positions of the stored events (position i holds the event looked up
\* with id i - 1).
Positions == 1 .. Len(events)

\* The sum of f over the accounts of S.
RECURSIVE SumOver(_, _)
SumOver(f, S) ==
    IF S = {} THEN 0
    ELSE LET a == CHOOSE x \in S : TRUE IN f[a] + SumOver(f, S \ {a})

\* How often string x occurs in sequence q.
Occurrences(q, x) == Cardinality({k \in 1 .. Len(q) : q[k] = x})

---------------------------------------------------------------------------
(* C1 *)

\* C1: in every reachable state, every stored event's total_votes equals
\* the length of its votes sequence.
C1_TallyMatchesVotes ==
    \A i \in Positions : events[i].total_votes = Len(events[i].votes)

\* Votes have been cast on an event and a later add_vote has failed.
C1_Witness ==
    /\ call.op = "add_vote" /\ call.status = "panic"
    /\ \E i \in Positions : events[i].total_votes = 2 /\ Len(events[i].votes) = 2

---------------------------------------------------------------------------
(* C2 *)

\* The id is the non-negative number n.
IdIs(id, n) == id >= 0 /\ Wide(id) = n

\* C2: in every reachable state the event stored at (zero-based) position
\* i of the registry has id i: ids are dense, zero-based and equal to
\* insertion order.  (The event at place i of `events` is at position
\* base + i - 1 of the registry.)
C2_IdIsPosition ==
    \A i \in Positions : IdIs(events[i].id, WideAdd(base, i - 1))

---------------------------------------------------------------------------
(* C3 *)

\* C3: add_vote(id) with id >= event_count() fails and leaves the whole
\* registry unchanged: no event's tally or votes, no count, not the owner.
C3_OutOfRangeVoteRejected ==
    [][ (Invoked("add_vote") /\ call'.args[1] >= Len(events))
            => /\ call'.status = "panic"
               /\ events' = events
               /\ Len(events') = Len(events)
               /\ owner' = owner ]_vars

\* add_vote(count) has failed on a registry that holds a voted event.
C3_Witness ==
    /\ call.op = "add_vote" /\ call.status = "panic"
    /\ call.args[1] = Len(events)
    /\ Len(events) = 1 /\ events[1].total_votes = 1

---------------------------------------------------------------------------
(* C4 *)

\* C4: get_total_votes(id) fails when id >= event_count(), as add_vote
\* does; for id < event_count() it returns the total_votes of the event at
\* position id, which is the number of add_vote(id) calls that succeeded;
\* either way the registry is left unchanged.
C4_GetTotalVotes ==
    [][ Invoked("get_total_votes")
            => /\ events' = events /\ owner' = owner
               /\ LET id == call'.args[1]
                  IN IF id >= Len(events)
                     THEN call'.status = "panic"
                     ELSE /\ call'.status = "ok"
                          /\ call'.value = events[id + 1].total_votes
                          /\ call'.value = SumOver(cast[id + 1], Accounts) ]_vars

\* get_total_votes has returned 2 for the second event.
C4_Witness ==
    /\ call.op = "get_total_votes" /\ call.status = "ok"
    /\ call.args[1] = 1 /\ call.value = 2

---------------------------------------------------------------------------
(* C5 *)

\* C5: add_event(title, budget, description) never fails and takes a
\* registry of n events to one of n + 1 events: the first n are unchanged
\* and the last has id n, the given title, estimated_budget and
\* description, total_votes 0 and no votes.
C5_AddEventAppends ==
    [][ Invoked("add_event")
            => /\ call'.status = "ok"
               /\ Len(events') = Len(events) + 1
               /\ SubSeq(events', 1, Len(events)) = events
               /\ LET new == events'[Len(events')]
                  IN /\ IdIs(new.id, len(events))
                     /\ new.title = call'.args[1]
                     /\ new.estimated_budget = call'.args[2]
                     /\ new.description = call'.args[3]
                     /\ new.total_votes = 0
                     /\ new.votes = << >> ]_vars

---------------------------------------------------------------------------
(* C6 *)

\* C6: a successful add_vote(id) by caller c changes only the event at
\* position id: total_votes grows by exactly 1 and c becomes the last
\* entry of votes; its other fields, every other event, the number of
\* events and the owner stay as they were.
C6_AddVoteFrame ==
    [][ (Invoked("add_vote") /\ call'.status = "ok")
            => LET i == call'.args[1] + 1
               IN /\ i \in Positions
                  /\ Len(events') = Len(events)
                  /\ owner' = owner
                  /\ \A j \in Positions \ {i} : events'[j] = events[j]
                  /\ events'[i].total_votes = events[i].total_votes + 1
                  /\ events'[i].votes =
                        Append(events[i].votes, to_string(call'.predecessor))
                  /\ events'[i] =
                        [events[i] EXCEPT !.total_votes = events'[i].total_votes,
                                          !.votes = events'[i].votes] ]_vars

\* A caller other than the signer has voted for the first of two events.
C6_Witness ==
    /\ call.op = "add_vote" /\ call.status = "ok" /\ call.args[1] = 0
    /\ call.signer # call.predecessor
    /\ Len(events) = 2
    /\ events[1].votes = <<to_string(call.predecessor)>>
    /\ events[2].votes = << >>

---------------------------------------------------------------------------
(* C7 *)

\* C7: add_vote(id) with id < event_count() succeeds for every caller
\* whatever the earlier votes, a repeat voter and the event's creator
\* included, and every call counts: an account's entries in votes are as
\* many as its successful calls, and total_votes is their sum.
C7_RepeatVotesCount ==
    /\ [](\A i \in Positions :
            /\ \A a \in Accounts :
                  Occurrences(events[i].votes, to_string(a)) = cast[i][a]
            /\ events[i].total_votes = SumOver(cast[i], Accounts))
    /\ [][ (Invoked("add_vote") /\ call'.args[1] < Len(events))
              => LET i == call'.args[1] + 1
                     c == to_string(call'.predecessor)
                 IN /\ call'.status = "ok"
                    /\ events'[i].total_votes = events[i].total_votes + 1
                    /\ Occurrences(events'[i].votes, c) =
                          Occurrences(events[i].votes, c) + 1 ]_vars

\* The creator of an event has voted for it twice.
C7_Witness ==
    \E i \in Positions :
        /\ events[i].votes = <<to_string(events[i].creator), to_string(events[i].creator)>>
        /\ events[i].total_votes = 2
        /\ cast[i][events[i].creator] = 2

---------------------------------------------------------------------------
(* C8 *)

\* The fields of an event that tell which event it is.
Identity(event) ==
    <<event.id, event.creator, event.created_at, event.title,
      event.description, event.estimated_budget>>

\* C8: event_count() is 0 after construction and never decreases; only
\* add_event changes it, by +1; events are never removed, reordered or
\* merged, so the event at position i stays at position i.
C8_CountMonotonic ==
    /\ Len(events) = 0
    /\ [][ /\ Len(events') >= Len(events)
           /\ (Len(events') # Len(events)
                  => Invoked("add_event") /\ Len(events') = Len(events) + 1)
           /\ \A i \in Positions : Identity(events'[i]) = Identity(events[i])
           /\ (Invoked("event_count")
                  => call'.value = Len(events) /\ Len(events') = Len(events)) ]_vars

\* event_count() has returned 2 after votes on both events.
C8_Witness ==
    /\ call.op = "event_count" /\ call.value = 2
    /\ events[1].total_votes = 1 /\ events[2].total_votes = 1

---------------------------------------------------------------------------
(* C9 *)

\* C9: once created, an event keeps the id, creator, created_at, title,
\* description and estimated_budget it was created with, in every later
\* state, whatever calls follow.
C9_CreationFieldsKept ==
    /\ Len(created) = Len(events)
    /\ \A i \in Positions :
          /\ events[i].id = created[i].id
          /\ events[i].creator = created[i].creator
          /\ events[i].created_at = created[i].created_at
          /\ events[i].title = created[i].title
          /\ events[i].description = created[i].description
          /\ events[i].estimated_budget = created[i].estimated_budget

\* An event of an earlier block has been voted on after another event
\* was added.
C9_Witness ==
    /\ Len(events) = 2
    /\ events[1].created_at < block_timestamp
    /\ events[1].total_votes = 2
    /\ call.op = "get_total_votes"

---------------------------------------------------------------------------
(* C10 *)

\* C10 as stated: the creator recorded by add_event is the caller identity
\* that add_vote records; when one caller invokes add_event and then
\* add_vote on the new event, the creator equals the appended entry.
C10_CreatorIsCaller ==
    [][ ( /\ call.op = "add_event"
          /\ Invoked("add_vote") /\ call'.status = "ok"
          /\ call'.args[1] = Len(events) - 1
          /\ call'.predecessor = call.predecessor )
            => LET new == events'[Len(events)]
               IN to_string(new.creator) = new.votes[Len(new.votes)] ]_vars

\* C10 amended: add_event records the signer of the transaction as creator
\* and add_vote records the predecessor (the immediate caller) as voter;
\* when the signer of add_event is the predecessor of an add_vote on the
\* new event that follows it, the creator equals the appended entry.
C10_CreatorIsSigner ==
    [][ /\ (Invoked("add_event")
              => events'[Len(events')].creator = call'.signer)
        /\ (Invoked("add_vote") /\ call'.status = "ok")
              => LET voted == events'[call'.args[1] + 1]
                 IN voted.votes[Len(voted.votes)] = to_string(call'.predecessor)
        /\ ( /\ call.op = "add_event"
             /\ Invoked("add_vote") /\ call'.status = "ok"
             /\ call'.args[1] = Len(events) - 1
             /\ call'.predecessor = call.signer )
              => LET new == events'[Len(events)]
                 IN to_string(new.creator) = new.votes[Len(new.votes)] ]_vars

\* The account that signed the add_event of the newest event has then
\* called add_vote on it directly.
C10_Witness ==
    /\ call.op = "add_vote" /\ call.status = "ok"
    /\ call.args[1] = Len(events) - 1
    /\ call.signer = call.predecessor
    /\ LET new == events[Len(events)]
       IN /\ new.creator = call.predecessor
          /\ new.votes = <<to_string(new.creator)>>

---------------------------------------------------------------------------
(* C11 *)

\* C11: when the id add_event is to assign exceeds the range of the id
\* field, the call is reported as a failure and stores nothing: no wrapped
\* or truncated id is ever stored.
C11_IdOverflowReported ==
    [][ Invoked("add_event")
            => IF FitsI32(len(events))
               THEN TRUE
               ELSE call'.status = "panic" /\ events' = events ]_vars

---------------------------------------------------------------------------
(* C12 *)

Reads == {"list_events", "event_count", "get_total_votes"}

\* C12: list_events, event_count and get_total_votes change no part of
\* the registry; list_events and event_count return what the registry
\* holds, so a call repeated with no add_event or add_vote in between
\* returns the same result.
C12_ReadsPure ==
    [][ (\E op \in Reads : Invoked(op))
            => /\ owner' = owner
               /\ events' = events
               /\ (call'.op = "list_events" => call'.value = events)
               /\ (call'.op = "event_count" => call'.value = Len(events))
               /\ (call.op = call'.op /\ call.args = call'.args
                     => call'.value = call.value /\ call'.status = call.status) ]_vars

\* list_events has returned both events, one of them voted on.
C12_Witness ==
    /\ call.op = "list_events"
    /\ Len(call.value) = 2
    /\ call.value[1].votes # << >>

---------------------------------------------------------------------------
(* C13 *)

\* add_vote(id) called directly by account a returns normally, with a's
\* vote counted on the event.
VoteSucceedsFor(id, a) ==
    /\ add_vote(id, a, a)
    /\ call'.status = "ok"
    /\ events'[id + 1].total_votes = events[id + 1].total_votes + 1

\* add_vote(id) called directly by account a fails.
VoteFailsFor(id, a) ==
    /\ add_vote(id, a, a)
    /\ call'.status = "panic"

\* add_event called directly by account a returns normally with one more
\* event stored.
EventAddedFor(title, a) ==
    /\ \E b \in Budgets, d \in Descriptions : add_event(title, b, d, a, a)
    /\ call'.status = "ok"
    /\ Len(events') = Len(events) + 1

\* C13: the owner is the account passed to the constructor and no call
\* changes it; add_event and add_vote come out the same for the owner as
\* for any other caller.
C13_OwnerUnenforced ==
    /\ owner = call.args[1]
    /\ [][owner' = owner]_vars
    /\ [](\A a \in Accounts :
            /\ \A id \in IdArgs :
                  /\ (ENABLED VoteSucceedsFor(id, a)) = (ENABLED VoteSucceedsFor(id, owner))
                  /\ (ENABLED VoteFailsFor(id, a)) = (ENABLED VoteFailsFor(id, owner))
            /\ \A t \in Titles :
                  (ENABLED EventAddedFor(t, a)) = (ENABLED EventAddedFor(t, owner)))

\* An account other than the owner has created an event and voted on it.
C13_Witness ==
    /\ call.op = "add_vote" /\ call.status = "ok"
    /\ call.predecessor # owner
    /\ events[call.args[1] + 1].creator # owner
    /\ events[call.args[1] + 1].votes = <<to_string(call.predecessor)>>

---------------------------------------------------------------------------
(* C14 *)

\* The tally of every event of evs matches its votes.
Untorn(evs) == \A k \in 1 .. Len(evs) : evs[k].total_votes = Len(evs[k].votes)

\* C14: an invocation runs to completion before the next begins, and the
\* point of add_vote where the counter is incremented and the voter not
\* yet pushed is never observable: the stored registry and what
\* list_events and get_total_votes return never show total_votes apart
\* from the number of votes, the registry changes under a running
\* add_vote only by that call's final write, and an add_vote that aborts
\* after the increment leaves the registry as it was.
C14_NoTornState ==
    /\ [](Untorn(events))
    /\ [](call.op = "list_events" => Untorn(call.value))
    /\ [][ /\ (Invoked("get_total_votes") /\ call'.status = "ok")
                => call'.value = Len(events[call'.args[1] + 1].votes)
           /\ (running.pc # "idle" /\ events' # events)
                => running.pc = "write" /\ running'.pc = "idle"
           /\ (running.pc # "idle" /\ running'.pc # "idle")
                => /\ running'.id = running.id
                   /\ running'.predecessor = running.predecessor
           /\ (running.pc # "idle" /\ running'.pc = "idle" /\ call'.status = "panic")
                => events' = events ]_vars

\* get_total_votes(id) has returned the stored tally while an add_vote(id)
\* holds the incremented counter with the voter not yet pushed.
C14_Witness ==
    /\ running.pc = "push"
    /\ ~Untorn(running.events)
    /\ call.op = "get_total_votes" /\ call.status = "ok"
    /\ call.args = <<running.id>>
    /\ call.value + 1 = running.events[running.id + 1].total_votes

---------------------------------------------------------------------------
(* C15 *)

IsPrefix(p, q) == Len(p) <= Len(q) /\ SubSeq(q, 1, Len(p)) = p

\* C15: votes are append-only: from any state to the next, and so to any
\* later one, every event's votes extend its earlier votes and its
\* total_votes does not go down.
C15_VotesAppendOnly ==
    [][ /\ Len(events') >= Len(events)
        /\ \A i \in Positions :
              /\ IsPrefix(events[i].votes, events'[i].votes)
              /\ events'[i].total_votes >= events[i].total_votes ]_vars

\* Two accounts have voted on one event, one after the other.
C15_Witness ==
    \E i \in Positions :
        /\ Len(events[i].votes) = 2
        /\ events[i].votes[1] # events[i].votes[2]
        /\ events[i].total_votes = 2

---------------------------------------------------------------------------
(* C16 *)

\* C16: every event's total_votes is >= 0, so its conversion to u64
\* succeeds and get_total_votes fails only for an id out of range.
C16_TallyNeverNegative ==
    /\ \A i \in Positions :
          /\ events[i].total_votes >= 0
          /\ try_into_u64(events[i].total_votes).ok
    /\ (call.op = "get_total_votes" /\ call.status = "panic")
          => call.args[1] >= Len(events)
    /\ (call.op = "get_total_votes" /\ call.args[1] < Len(events))
          => call.status = "ok" /\ call.value >= 0

\* get_total_votes has failed for the id past the end of a registry whose
\* events have all been voted on.
C16_Witness ==
    /\ call.op = "get_total_votes" /\ call.status = "panic"
    /\ call.args[1] = Len(events)
    /\ Len(events) = 2
    /\ events[1].total_votes = 1 /\ events[2].total_votes = 1

====
